---- MODULE Spec2Model ----
(***************************************************************************)
(* A model of the GUI automation tool:                                     *)
(*   - AutomationState (app/core/models.py): the step list and id counter  *)
(*   - GUIAutomationApp (app/main.py): the UI callbacks and the run        *)
(*     coroutine _run_all_steps, scheduled by one asyncio event loop       *)
(*   - AutomationEngine (app/core/automation.py): execute_step dispatch    *)
(*   - find_image_on_screen (app/utils/image_utils.py): the locator        *)
(*   - GUIAutomationTool.find_image_on_screen (main.py): the multi-method  *)
(*     best-of matcher                                                     *)
(*                                                                         *)
(* Scores and confidences are on the integer scale 0..ScoreMax, which      *)
(* stands for the interval [0,1] (TM_CCOEFF_NORMED reaches down to         *)
(* -ScoreMax, which stands for -1).                                        *)
(***************************************************************************)
EXTENDS Integers, Sequences, FiniteSets, TLC

VARIABLES
    steps,          \* AutomationState.steps
    step_counter,   \* AutomationState.step_counter
    runs,           \* the _run_all_steps coroutines, one record per invocation
    cpu,            \* 0: the event loop is idle; r: run r executes synchronously
    loc,            \* the activation of find_image_on_screen (app/utils)
    bm,             \* the activation of the best-of matcher (main.py)
    call,           \* the last call of an AutomationState method and its return
    temp_files,     \* the files in AutomationState.temp_dir
    uploaded_images, \* AutomationState.uploaded_images: filename -> path
    failsafe        \* the mouse is in a corner of the screen (pyautogui.FAILSAFE)

vars ==
    <<steps, step_counter, runs, cpu, loc, bm, call, temp_files, uploaded_images,
      failsafe>>
uploadVars == <<temp_files, uploaded_images>>
appVars == <<steps, step_counter, runs, cpu>>

(***************************************************************************)
(* Bounds of the model.                                                    *)
(***************************************************************************)
MaxAdds == 2        \* add_step calls in a behaviour
MaxRuns == 1        \* _run_all_steps coroutines alive at a time
MaxAttempts == 3    \* largest max_attempts passed to the locator
ScoreMax == 2       \* the score scale: ScoreMax stands for 1.0
MaxLoc == 2         \* match locations in a frame
MaxSteps == 3       \* add_step calls on an AutomationState used on its own
MaxTasks == 2       \* _run_all_steps coroutines alive at a time on a fixed list

RunIds == 1..MaxRuns
Scores == 0..ScoreMax
Confidences == 1..ScoreMax
\* the (x, y) that cv2.minMaxLoc can give as max_loc
MatchLocs == {<<x, MaxLoc - 1 - x>> : x \in 0..(MaxLoc - 1)}

Get(params, key, default) == IF key \in DOMAIN params THEN params[key] ELSE default

NoParams == [k \in {} |-> 0]

(***************************************************************************)
(* The locator: find_image_on_screen of app/utils/image_utils.py.          *)
(* It is synchronous: time.sleep blocks the event loop.                    *)
(***************************************************************************)
Pending == [kind |-> "pending", cause |-> "", conf |-> 0]
ReturnNone == [kind |-> "None", cause |-> "", conf |-> 0]

\* the template files on disk: template.shape[:2] of each
TemplateFiles ==
    [a |-> [h |-> 2, w |-> 3], b |-> [h |-> 5, w |-> 4], c |-> [h |-> 1, w |-> 1]]

\* the dict returned for a match: the positions computed from max_loc and
\* the template's shape (// is floor division; the operands are not negative)
FoundDict_SwappedCorners(max_val, max_loc, shape) ==
    LET h == shape.h
        w == shape.w
        top_left == max_loc
        bottom_right == <<top_left[1] + w, top_left[2] + h>>
        center == <<top_left[1] + (w \div 2), top_left[2] + (h \div 2)>>
    IN  [found |-> TRUE,
         confidence |-> max_val,
         top_left |-> top_left,
         bottom_right |-> bottom_right,
         center |-> center,
         width |-> w,
         height |-> h,
         top_right |-> <<top_left[1], bottom_right[2]>>,
         bottom_left |-> <<bottom_right[1], top_left[2]>>,
         top_center |-> <<center[1], top_left[2]>>,
         bottom_center |-> <<center[1], bottom_right[2]>>,
         left_center |-> <<top_left[1], center[2]>>,
         right_center |-> <<bottom_right[1], center[2]>>]

FoundDict_NoOffset(max_val, max_loc, shape) ==
    LET h == shape.h
        w == shape.w
        top_left == max_loc
        bottom_right == <<top_left[1] + w, top_left[2] + h>>
        center == <<w \div 2, h \div 2>>
    IN  [found |-> TRUE,
         confidence |-> max_val,
         top_left |-> top_left,
         bottom_right |-> bottom_right,
         center |-> center,
         width |-> w,
         height |-> h,
         top_right |-> <<bottom_right[1], top_left[2]>>,
         bottom_left |-> <<top_left[1], bottom_right[2]>>,
         top_center |-> <<center[1], top_left[2]>>,
         bottom_center |-> <<center[1], bottom_right[2]>>,
         left_center |-> <<top_left[1], center[2]>>,
         right_center |-> <<bottom_right[1], center[2]>>]

FoundDict(max_val, max_loc, shape) ==
    LET h == shape.h
        w == shape.w
        top_left == max_loc
        bottom_right == <<top_left[1] + w, top_left[2] + h>>
        center == <<top_left[1] + (w \div 2), top_left[2] + (h \div 2)>>
    IN  [found |-> TRUE,
         confidence |-> max_val,
         top_left |-> top_left,
         bottom_right |-> bottom_right,
         center |-> center,
         width |-> w,
         height |-> h,
         top_right |-> <<bottom_right[1], top_left[2]>>,
         bottom_left |-> <<top_left[1], bottom_right[2]>>,
         top_center |-> <<center[1], top_left[2]>>,
         bottom_center |-> <<center[1], bottom_right[2]>>,
         left_center |-> <<top_left[1], center[2]>>,
         right_center |-> <<bottom_right[1], center[2]>>]

ReturnFound(max_val, max_loc, shape) ==
    [kind |-> "found", cause |-> "", conf |-> max_val,
     dict |-> FoundDict(max_val, max_loc, shape)]
\* raise Exception(f"Error finding image: {str(e)}"): the message names the cause
RaiseError(cause) == [kind |-> "raise", cause |-> cause, conf |-> 0]

LocIdle ==
    [pc |-> "idle", image_path |-> "", confidence |-> 0, max_attempts |-> 0,
     attempt |-> 0, shape |-> [h |-> 0, w |-> 0], decoded |-> FALSE, oversized |-> FALSE, timeBound |-> FALSE,
     captures |-> 0, matches |-> 0, sleeps |-> 0, excs |-> 0, minmax |-> <<>>,
     result |-> Pending]

LocCall(image_path, confidence, max_attempts) ==
    [LocIdle EXCEPT !.pc = "load", !.image_path = image_path,
                    !.confidence = confidence, !.max_attempts = max_attempts]

\* for attempt in range(max_attempts)
AttemptRange_OffByOne(max_attempts) == 0..max_attempts

AttemptRange(max_attempts) == 0..(max_attempts - 1)

\* if max_val >= confidence
MeetsThreshold_Strict(max_val, confidence) == max_val > confidence

MeetsThreshold(max_val, confidence) == max_val >= confidence

\* if attempt == max_attempts - 1: raise
IsFinalAttempt(attempt, max_attempts) == attempt = max_attempts - 1

\* template = cv2.imread(...); if template is None: return None
LocLoad_NoNoneCheck ==
    /\ loc.pc = "load"
    /\ \E big \in BOOLEAN :
         loc' = [loc EXCEPT !.pc = "attempt", !.oversized = big,
                            !.shape = TemplateFiles[loc.image_path]]

LocLoad ==
    /\ loc.pc = "load"
    /\ \E decodable \in BOOLEAN, big \in BOOLEAN :
         IF ~decodable
         THEN loc' = [loc EXCEPT !.pc = "done", !.result = ReturnNone]
         ELSE loc' = [loc EXCEPT !.pc = "attempt", !.decoded = TRUE,
                                 !.oversized = big,
                                 !.shape = TemplateFiles[loc.image_path]]

\* The except clause of one attempt: re-raise on the final attempt, else
\* time.sleep(retry_interval), where `time` is a local name that only the
\* "import time" of a non-matching attempt binds.
LocOnException(cause, l) ==
    IF IsFinalAttempt(l.attempt, l.max_attempts)
    THEN [l EXCEPT !.pc = "done", !.excs = @ + 1, !.result = RaiseError(cause)]
    ELSE IF l.timeBound
         THEN [l EXCEPT !.pc = "sleep", !.excs = @ + 1, !.sleeps = @ + 1]
         ELSE [l EXCEPT !.pc = "done", !.excs = @ + 1,
                        !.result = RaiseError("UnboundLocalError")]

\* A non-matching attempt: import time and sleep unless it was the last one.
LocOnNoMatch(l) ==
    IF l.attempt < l.max_attempts - 1
    THEN [l EXCEPT !.pc = "sleep", !.timeBound = TRUE, !.sleeps = @ + 1]
    ELSE [l EXCEPT !.pc = "next"]

\* One pass of the loop body: screenshot, matchTemplate, threshold.
LocAttempt ==
    /\ loc.pc = "attempt"
    /\ loc.attempt \in AttemptRange(loc.max_attempts)
    /\ \/ \* pyautogui.screenshot() raises
          loc' = LocOnException("capture", [loc EXCEPT !.captures = @ + 1])
       \/ \* cv2.matchTemplate raises (always so for a template larger than the frame)
          loc' = LocOnException("cv2.error",
                    [loc EXCEPT !.captures = @ + 1, !.matches = @ + 1])
       \/ /\ ~loc.oversized
          /\ \E max_val \in Scores, max_loc \in MatchLocs :
               LET l == [loc EXCEPT !.captures = @ + 1, !.matches = @ + 1,
                                    !.minmax = <<max_val, max_loc>>] IN
               IF MeetsThreshold(max_val, l.confidence)
               THEN loc' = [l EXCEPT !.pc = "done",
                               !.result = ReturnFound(max_val, max_loc, l.shape)]
               ELSE loc' = LocOnNoMatch(l)

\* time.sleep(retry_interval) returns, or the last pass fell through: next pass
LocWake ==
    /\ loc.pc \in {"sleep", "next"}
    /\ loc' = [loc EXCEPT !.pc = "attempt", !.attempt = @ + 1, !.minmax = <<>>]

\* the range is exhausted: return None
LocExit ==
    /\ loc.pc = "attempt"
    /\ loc.attempt \notin AttemptRange(loc.max_attempts)
    /\ loc' = [loc EXCEPT !.pc = "done", !.result = ReturnNone]

LocStep == LocLoad \/ LocAttempt \/ LocWake \/ LocExit

(***************************************************************************)
(* AutomationState (app/core/models.py) and the callbacks of               *)
(* GUIAutomationApp (app/main.py) that edit the step list.  A callback     *)
(* runs only when the event loop is idle (cpu = 0).                        *)
(***************************************************************************)
RunIdle ==
    [pc |-> "idle", idx |-> 0, cur |-> NoParams, trace |-> <<>>, log |-> <<>>,
     settles |-> 0, startLen |-> 0, sent |-> [fn |-> "-"], dict |-> [found |-> FALSE]]

\* A coroutine that has returned is discarded with the next event: rs, with
\* the runs that are finished in the current state dropped.
Reap(rs) ==
    [q \in DOMAIN runs |->
        IF runs[q].pc = "done" /\ rs[q] = runs[q] THEN RunIdle ELSE rs[q]]

\* f"step_{self.step_counter}"
StepId(n) == <<"step_", n>>

\* the steps the Add Step callback is invoked with
StepInputs ==
    { [type |-> "Click", params |-> [x |-> 1, y |-> 2, button |-> "left"]],
      [type |-> "Delay", params |-> [seconds |-> 1]],
      [type |-> "Find and Click Image",
       params |-> [image_path |-> "a", position |-> "center",
                   button |-> "left", confidence |-> ScoreMax,
                   max_attempts |-> 2, retry_interval |-> 1]],
      [type |-> "Scroll", params |-> NoParams] }

\* Python's None
None == [none |-> TRUE]

\* d[k] = v on a dict
SetItem(d, k, v) == [x \in DOMAIN d \cup {k} |-> IF x = k THEN v ELSE d[x]]

\* list.pop(index) for an index Python accepts: a negative one counts from
\* the end
Pop(list, index) ==
    LET j == IF index < 0 THEN index + Len(list) ELSE index
    IN  [i \in 1..(Len(list) - 1) |-> IF i <= j THEN list[i] ELSE list[i + 1]]

\* list.insert(index, x): the index is clamped to the list
Insert(list, index, x) ==
    LET n == Len(list)
        j == IF index < 0
             THEN (IF n + index < 0 THEN 0 ELSE n + index)
             ELSE (IF index > n THEN n ELSE index)
    IN  SubSeq(list, 1, j) \o <<x>> \o SubSeq(list, j + 1, n)

\* The methods of AutomationState: the list and the counter they leave, the
\* value they return and, for add_step, the caller's dict after the call.
\* AutomationState.add_step: copy, assign the id, append, count
add_step_NoCount(step) ==
    LET step_copy == SetItem(step, "id", StepId(step_counter))
    IN  [steps |-> Append(steps, step_copy), step_counter |-> step_counter,
         ret |-> step_copy, arg |-> step]

add_step_Alias(step) ==
    LET step_copy == SetItem(step, "id", StepId(step_counter))
    IN  [steps |-> Append(steps, step_copy), step_counter |-> step_counter + 1,
         ret |-> step_copy, arg |-> step_copy]

add_step(step) ==
    LET step_copy == SetItem(step, "id", StepId(step_counter))
    IN  [steps |-> Append(steps, step_copy), step_counter |-> step_counter + 1,
         ret |-> step_copy, arg |-> step]

\* AutomationState.remove_step: pop(index) when in range
remove_step_NoLowerBound(index) ==
    IF index < Len(steps) /\ -Len(steps) <= index
    THEN [steps |-> Pop(steps, index), step_counter |-> step_counter,
          ret |-> steps[(IF index < 0 THEN index + Len(steps) ELSE index) + 1]]
    ELSE [steps |-> steps, step_counter |-> step_counter, ret |-> None]

remove_step(index) ==
    IF 0 <= index /\ index < Len(steps)
    THEN [steps |-> Pop(steps, index), step_counter |-> step_counter,
          ret |-> steps[index + 1]]
    ELSE [steps |-> steps, step_counter |-> step_counter, ret |-> None]

\* AutomationState.reorder_step: pop(old_index), insert(new_index, ...)
reorder_step_Swap(old_index, new_index) ==
    IF ~(/\ 0 <= old_index /\ old_index < Len(steps)
         /\ 0 <= new_index /\ new_index < Len(steps))
    THEN [steps |-> steps, step_counter |-> step_counter, ret |-> FALSE]
    ELSE [steps |-> [steps EXCEPT ![old_index + 1] = steps[new_index + 1],
                                  ![new_index + 1] = steps[old_index + 1]],
          step_counter |-> step_counter, ret |-> TRUE]

reorder_step(old_index, new_index) ==
    IF ~(/\ 0 <= old_index /\ old_index < Len(steps)
         /\ 0 <= new_index /\ new_index < Len(steps))
    THEN [steps |-> steps, step_counter |-> step_counter, ret |-> FALSE]
    ELSE LET step_to_move == steps[old_index + 1]
         IN  [steps |-> Insert(Pop(steps, old_index), new_index, step_to_move),
              step_counter |-> step_counter, ret |-> TRUE]

\* AutomationState.clear_steps
clear_steps_ResetCounter ==
    [steps |-> <<>>, step_counter |-> 0, ret |-> None]

clear_steps ==
    [steps |-> <<>>, step_counter |-> step_counter, ret |-> None]

\* AutomationState.get_step
get_step(index) ==
    IF 0 <= index /\ index < Len(steps)
    THEN [steps |-> steps, step_counter |-> step_counter, ret |-> steps[index + 1]]
    ELSE [steps |-> steps, step_counter |-> step_counter, ret |-> None]

\* GUIAutomationApp._add_step: the returned copy is not used
AddStep ==
    /\ cpu = 0
    /\ step_counter < MaxAdds
    /\ \E step \in StepInputs :
          LET m == add_step(step) IN
          /\ steps' = m.steps
          /\ step_counter' = m.step_counter
    /\ runs' = Reap(runs)
    /\ UNCHANGED <<cpu, loc, bm, call, uploadVars, failsafe>>

\* GUIAutomationApp._remove_step
RemoveStep ==
    /\ cpu = 0
    /\ \E index \in 0..Len(steps) :
          LET m == remove_step(index) IN
          /\ steps' = m.steps
          /\ step_counter' = m.step_counter
    /\ runs' = Reap(runs)
    /\ UNCHANGED <<cpu, loc, bm, call, uploadVars, failsafe>>

\* GUIAutomationApp._clear_steps
ClearSteps ==
    /\ cpu = 0
    /\ steps' = clear_steps.steps
    /\ step_counter' = clear_steps.step_counter
    /\ runs' = Reap(runs)
    /\ UNCHANGED <<cpu, loc, bm, call, uploadVars, failsafe>>

(***************************************************************************)
(* AutomationEngine.execute_step (app/core/automation.py).                 *)
(***************************************************************************)
\* step.get('type', '').lower()
Lower(t) ==
    CASE t = "Move Mouse" -> "move mouse"
      [] t = "Click" -> "click"
      [] t = "Type Text" -> "type text"
      [] t = "Delay" -> "delay"
      [] t = "Screenshot" -> "screenshot"
      [] t = "Find and Click Image" -> "find and click image"
      [] t = "Press Hotkey" -> "press hotkey"
      [] t = "Scroll" -> "scroll"
      [] OTHER -> t

\* confidence defaults to 0.7: the least score of the scale that reaches it
DefaultConfidence == (7 * ScoreMax + 9) \div 10
DefaultMaxAttempts == 1

\* except Exception of execute_step: any exception of a handler becomes False
ExecuteStepResult(outcome) == IF outcome = "exception" THEN "fail" ELSE outcome

\* The handlers that do not suspend: what the handler returns, or that it
\* raised, and the injection and capture calls it issued.  `raises` is
\* whether the pyautogui call of the handler raises.
\* `sent` is the pyautogui input call the handler issued, with its arguments.
NoInj == [fn |-> "-"]

NoDict == [found |-> FALSE]

\* what a handler did that issued no call
NoFx == [inj |-> 0, cap |-> 0, err |-> FALSE, sent |-> NoInj,
         loc |-> "-", dict |-> NoDict]

Raised(raises) == IF raises THEN "exception" ELSE "ok"

\* pyautogui.FAILSAFE = True: a mouse or keyboard call of pyautogui raises
\* FailSafeException when the mouse is in a corner of the screen
FailSafeCheck(inj, raises) == (failsafe /\ inj > 0) => raises

\* else: log "Unknown step type", return False
UnknownStepType_Accepted == [outcome |-> "ok", fx |-> NoFx]

UnknownStepType == [outcome |-> "fail", fx |-> NoFx]

Handler(step_type, params, raises) ==
    CASE step_type = "move mouse" ->
           [outcome |-> Raised(raises),
            fx |-> [NoFx EXCEPT !.inj = 1, !.err = raises,
                      !.sent = [fn |-> "moveTo", x |-> Get(params, "x", 0),
                                y |-> Get(params, "y", 0)]]]
      [] step_type = "click" ->
           [outcome |-> Raised(raises),
            fx |-> [NoFx EXCEPT !.inj = 1, !.err = raises,
                      !.sent = [fn |-> "click", x |-> Get(params, "x", 0),
                                y |-> Get(params, "y", 0),
                                button |-> Get(params, "button", "left")]]]
      [] step_type = "type text" ->
           [outcome |-> Raised(raises),
            fx |-> [NoFx EXCEPT !.inj = 1, !.err = raises,
                      !.sent = [fn |-> "write", text |-> Get(params, "text", "")]]]
      [] step_type = "screenshot" ->
           \* both try blocks swallow the exception and the handler returns None
           [outcome |-> "ok", fx |-> [NoFx EXCEPT !.cap = 1, !.err = raises]]
      [] step_type = "press hotkey" ->
           LET keys == Get(params, "keys", <<>>)
               modifiers == Get(params, "modifiers", <<>>)
           IN  IF keys = <<>> /\ modifiers = <<>>
               THEN \* the warning is logged and the handler returns None
                    [outcome |-> "ok", fx |-> NoFx]
               ELSE [outcome |-> Raised(raises),
                     fx |-> [NoFx EXCEPT !.inj = 1, !.err = raises,
                               !.sent = [fn |-> "hotkey", keys |-> modifiers \o keys]]]
      [] OTHER -> UnknownStepType

\* target_pos = result.get(position, result['center'])
TargetPos_AlwaysCenter(dict, position) == dict.center

TargetPos(dict, position) == Get(dict, position, dict.center)

\* _execute_find_and_click_image after find_image_on_screen came back:
\* click when the result says found, False otherwise and on any exception.
FindClickResult_Swallow(result, raises) ==
    IF result.kind = "found"
    THEN [outcome |-> IF raises THEN "fail" ELSE "ok", inj |-> 1]
    ELSE IF result.kind = "raise"
         THEN [outcome |-> "ok", inj |-> 0]
         ELSE [outcome |-> "fail", inj |-> 0]

FindClickResult(result, raises) ==
    IF result.kind = "found"
    THEN [outcome |-> IF raises THEN "fail" ELSE "ok", inj |-> 1]
    ELSE [outcome |-> "fail", inj |-> 0]

\* pyautogui.click(target_pos[0], target_pos[1], button=button) of a found result
FindClickSent(result, params) ==
    IF result.kind = "found"
    THEN LET position == Get(params, "position", "center")
             target_pos == TargetPos(result.dict, position)
         IN  [fn |-> "click", x |-> target_pos[1], y |-> target_pos[2],
              button |-> Get(params, "button", "left")]
    ELSE NoInj

(***************************************************************************)
(* GUIAutomationApp._run_all_steps (app/main.py): one coroutine per        *)
(* invocation.  It holds the event loop (cpu = r) between two awaits that  *)
(* suspend: asyncio.sleep of a Delay step and the settle sleep.            *)
(***************************************************************************)
Log(msg, arg) == [msg |-> msg, arg |-> arg]

\* if not self.state.steps
NoStepsToRun_Never(list) == FALSE

NoStepsToRun(list) == list = <<>>

\* the list iterator of the for loop moves on by one
IterAdvance_Stuck(idx) == idx

IterAdvance(idx) == idx + 1

\* if not success: break, else await asyncio.sleep(0.1)
AfterExecute_NoBreak(success) == "settle"

AfterExecute(success) == IF ~success THEN "break" ELSE "settle"

\* execute_step returned `outcome` to run r, its handler having done fx:
\* inj input calls, cap captures of its own, err if a pyautogui call raised,
\* loc how the locator ended ("-" for the other handlers).  The run keeps the
\* input call and the locator's dict of its latest step only.
Finish(r, outcome, fx) ==
    LET success == outcome = "ok"
        run == [runs[r] EXCEPT
                  !.trace[Len(runs[r].trace)] =
                      [@ EXCEPT !.res = outcome, !.inj = fx.inj, !.cap = fx.cap,
                                !.err = fx.err, !.loc = fx.loc],
                  !.sent = fx.sent,
                  !.dict = fx.dict]
    IN  /\ cpu' = 0
        /\ IF AfterExecute(success) = "break"
           THEN runs' = Reap([runs EXCEPT ![r] =
                    [run EXCEPT !.pc = "done",
                         !.log = @ \o << Log("Step failed", run.cur.type),
                                         Log("Automation completed!", "") >>]])
           ELSE runs' = Reap([runs EXCEPT ![r] =
                    [run EXCEPT !.pc = "settle", !.settles = @ + 1]])

\* the callback is invoked: the empty-list check, then the loop is entered
RunAllSteps(r) ==
    /\ cpu = 0
    /\ runs[r].pc \in {"idle", "done"}
    /\ \A q \in DOMAIN runs : q < r => runs[q].pc \notin {"idle", "done"}
    /\ IF NoStepsToRun(steps)
       THEN /\ runs' = Reap([runs EXCEPT ![r] =
                  [RunIdle EXCEPT !.pc = "done", !.startLen = Len(steps),
                            !.log = << Log("No steps to run", "") >>]])
            /\ UNCHANGED cpu
       ELSE /\ runs' = Reap([runs EXCEPT ![r] =
                  [RunIdle EXCEPT !.pc = "fetch", !.startLen = Len(steps),
                            !.log = << Log("Starting automation...", "") >>]])
            /\ cpu' = r
    /\ UNCHANGED <<steps, step_counter, loc, bm, call, uploadVars, failsafe>>

\* for step in self.state.steps: the iterator reads the live list
NextStep(r) ==
    /\ cpu = r
    /\ runs[r].pc = "fetch"
    /\ IF runs[r].idx < Len(steps)
       THEN /\ runs' = Reap([runs EXCEPT ![r] =
                  [@ EXCEPT !.pc = "exec",
                            !.cur = steps[runs[r].idx + 1],
                            !.idx = IterAdvance(@),
                            !.trace = Append(@,
                                [idx |-> runs[r].idx,
                                 id |-> steps[runs[r].idx + 1].id,
                                 type |-> Get(steps[runs[r].idx + 1], "type", ""),
                                 res |-> "running", inj |-> 0, cap |-> 0,
                                 err |-> FALSE, loc |-> "-"])]])
            /\ UNCHANGED cpu
       ELSE /\ runs' = Reap([runs EXCEPT ![r] =
                  [@ EXCEPT !.pc = "done",
                            !.log = Append(@, Log("Automation completed!", ""))]])
            /\ cpu' = 0
    /\ UNCHANGED <<steps, step_counter, loc, bm, call, uploadVars, failsafe>>

\* success = await self.engine.execute_step(step), up to its return or its
\* first suspension
ExecuteStep(r) ==
    /\ cpu = r
    /\ runs[r].pc = "exec"
    /\ LET step == runs[r].cur
           step_type == Lower(Get(step, "type", ""))
           params == Get(step, "params", NoParams)
       IN  CASE step_type = "delay" ->
                  \* await asyncio.sleep(delay)
                  /\ runs' = Reap([runs EXCEPT ![r].pc = "delay"])
                  /\ cpu' = 0
                  /\ UNCHANGED loc
             [] step_type = "find and click image" ->
                  \E exists \in BOOLEAN :
                     IF "image_path" \notin DOMAIN params \/ ~exists
                     THEN /\ Finish(r, "fail", NoFx)
                          /\ UNCHANGED loc
                     ELSE /\ runs' = Reap([runs EXCEPT ![r].pc = "locate"])
                          /\ loc' = LocCall(params.image_path,
                                            Get(params, "confidence", DefaultConfidence),
                                            Get(params, "max_attempts", DefaultMaxAttempts))
                          /\ UNCHANGED cpu
             [] OTHER ->
                  /\ \E raises \in BOOLEAN :
                        LET h == Handler(step_type, params, raises) IN
                        /\ FailSafeCheck(h.fx.inj, raises)
                        /\ Finish(r, ExecuteStepResult(h.outcome), h.fx)
                  /\ UNCHANGED loc
    /\ UNCHANGED <<steps, step_counter, bm, call, uploadVars, failsafe>>

\* find_image_on_screen returned or raised to _execute_find_and_click_image
FindAndClickReturn(r) ==
    /\ cpu = r
    /\ runs[r].pc = "locate"
    /\ loc.pc = "done"
    /\ \E raises \in BOOLEAN :
          LET f == FindClickResult(loc.result, raises)
              params == Get(runs[r].cur, "params", NoParams)
          IN  /\ FailSafeCheck(f.inj, raises)
              /\ Finish(r, ExecuteStepResult(f.outcome),
                     [NoFx EXCEPT !.inj = f.inj, !.err = f.inj = 1 /\ raises,
                                  !.sent = FindClickSent(loc.result, params),
                                  !.loc = loc.result.kind,
                                  !.dict = Get(loc.result, "dict", NoDict)])
    /\ loc' = LocIdle
    /\ UNCHANGED <<steps, step_counter, bm, call, uploadVars, failsafe>>

\* asyncio.sleep(delay) of a Delay step is over: the handler returns
DelayWake(r) ==
    /\ cpu = 0
    /\ runs[r].pc = "delay"
    /\ Finish(r, ExecuteStepResult("ok"), NoFx)
    /\ UNCHANGED <<steps, step_counter, loc, bm, call, uploadVars, failsafe>>

\* asyncio.sleep(0.1) between steps is over: the loop goes on
SettleWake_Preempt(r) ==
    /\ runs[r].pc = "settle"
    /\ runs' = Reap([runs EXCEPT ![r].pc = "fetch"])
    /\ cpu' = r
    /\ UNCHANGED <<steps, step_counter, loc, bm, call, uploadVars, failsafe>>

SettleWake(r) ==
    /\ cpu = 0
    /\ runs[r].pc = "settle"
    /\ runs' = Reap([runs EXCEPT ![r].pc = "fetch"])
    /\ cpu' = r
    /\ UNCHANGED <<steps, step_counter, loc, bm, call, uploadVars, failsafe>>

\* the locator runs inside a step: it blocks the event loop
Locate ==
    /\ cpu # 0
    /\ runs[cpu].pc = "locate"
    /\ LocStep
    /\ UNCHANGED <<appVars, bm, call, uploadVars, failsafe>>

(***************************************************************************)
(* The best-of matcher: one attempt of                                     *)
(* GUIAutomationTool.find_image_on_screen of main.py.  cv2.minMaxLoc gives *)
(* each method a value and a location: the maximum for the correlation     *)
(* methods, the minimum for TM_SQDIFF_NORMED, which is all the code reads. *)
(***************************************************************************)
\* methods = [cv2.TM_CCOEFF_NORMED, cv2.TM_CCORR_NORMED, cv2.TM_SQDIFF_NORMED]
methods == <<"TM_CCOEFF_NORMED", "TM_CCORR_NORMED", "TM_SQDIFF_NORMED">>

Locs == 1..MaxLoc

\* the values cv2 can give a method: [-1,1] for CCOEFF, [0,1] for the others
ValRange(method) ==
    IF method = "TM_CCOEFF_NORMED" THEN (-ScoreMax)..ScoreMax ELSE 0..ScoreMax

\* what cv2.matchTemplate and cv2.minMaxLoc do for one method: raise, or
\* give the value and the location the code reads
MethodResults(method) ==
    {[fails |-> TRUE, val |-> 0, loc |-> 0]} \cup
    {[fails |-> FALSE, val |-> v, loc |-> l] : v \in ValRange(method), l \in Locs}

\* best_match = {'val': -1, 'loc': None, 'method': None}
BestMatchInit == [val |-> -ScoreMax, loc |-> 0, method |-> ""]

BmIdle ==
    [pc |-> "idle", results |-> <<>>, i |-> 0, best_match |-> BestMatchInit,
     confidence |-> 0, found |-> FALSE]

\* if method in [cv2.TM_SQDIFF, cv2.TM_SQDIFF_NORMED]
IsSqdiff(method) == method \in {"TM_SQDIFF", "TM_SQDIFF_NORMED"}

\* One pass of "for method in methods": both branches keep the method whose
\* raw value is greater than the best so far; an exception skips the method.
BestOfUpdate(best_match, method, res) ==
    IF res.fails
    THEN best_match
    ELSE IF IsSqdiff(method)
         THEN IF res.val > best_match.val
              THEN [val |-> res.val, loc |-> res.loc, method |-> method]
              ELSE best_match
         ELSE IF res.val > best_match.val
              THEN [val |-> res.val, loc |-> res.loc, method |-> method]
              ELSE best_match

\* an attempt starts: the frame is captured, best_match is initialised
MatchCall ==
    /\ bm.pc = "idle"
    /\ \E confidence \in Confidences,
          r1 \in MethodResults(methods[1]),
          r2 \in MethodResults(methods[2]),
          r3 \in MethodResults(methods[3]) :
          bm' = [BmIdle EXCEPT !.pc = "methods", !.results = <<r1, r2, r3>>,
                               !.i = 1, !.confidence = confidence]

\* the loop body for the next method
MatchMethod ==
    /\ bm.pc = "methods"
    /\ bm.i <= Len(methods)
    /\ bm' = [bm EXCEPT !.best_match = BestOfUpdate(@, methods[bm.i], bm.results[bm.i]),
                        !.i = @ + 1]

\* match_confidence = best_match['val']; if match_confidence >= confidence
MatchThreshold ==
    /\ bm.pc = "methods"
    /\ bm.i > Len(methods)
    /\ bm' = [bm EXCEPT !.pc = "done",
                        !.found = MeetsThreshold(bm.best_match.val, bm.confidence)]

\* no method of AutomationState has been called; `issued` collects the ids
\* that add_step has handed out
NoCall ==
    [op |-> "-", args |-> <<>>, ret |-> None, arg_after |-> None,
     before |-> <<>>, counter_before |-> 0, prior |-> {}, issued |-> {}]

AppInit ==
    /\ steps = <<>>
    /\ step_counter = 0
    /\ runs = [r \in RunIds |-> RunIdle]
    /\ cpu = 0
    /\ call = NoCall
    /\ temp_files = {}
    /\ uploaded_images = NoParams
    /\ failsafe = FALSE

Init == AppInit /\ loc = LocIdle /\ bm = BmIdle

Next ==
    \/ AddStep
    \/ RemoveStep
    \/ ClearSteps
    \/ \E r \in DOMAIN runs : RunAllSteps(r)
    \/ \E r \in DOMAIN runs : NextStep(r)
    \/ \E r \in DOMAIN runs : ExecuteStep(r)
    \/ \E r \in DOMAIN runs : FindAndClickReturn(r)
    \/ \E r \in DOMAIN runs : DelayWake(r)
    \/ \E r \in DOMAIN runs : SettleWake(r)
    \/ Locate

Spec == Init /\ [][Next]_vars

(***************************************************************************)
(* The locator alone, called with every confidence and max_attempts.       *)
(***************************************************************************)
LocateCall ==
    /\ loc.pc = "idle"
    /\ \E image_path \in DOMAIN TemplateFiles,
          confidence \in Confidences, max_attempts \in 0..MaxAttempts :
         loc' = LocCall(image_path, confidence, max_attempts)

InitLocate == AppInit /\ loc = LocIdle /\ bm = BmIdle

NextLocate ==
    \/ LocateCall /\ UNCHANGED <<appVars, bm, call, uploadVars, failsafe>>
    \/ LocLoad /\ UNCHANGED <<appVars, bm, call, uploadVars, failsafe>>
    \/ LocAttempt /\ UNCHANGED <<appVars, bm, call, uploadVars, failsafe>>
    \/ LocWake /\ UNCHANGED <<appVars, bm, call, uploadVars, failsafe>>
    \/ LocExit /\ UNCHANGED <<appVars, bm, call, uploadVars, failsafe>>

SpecLocate == InitLocate /\ [][NextLocate]_vars

(***************************************************************************)
(* The best-of matcher alone, on every combination of method results.      *)
(***************************************************************************)
InitMatch == AppInit /\ loc = LocIdle /\ bm = BmIdle

NextMatch ==
    \/ MatchCall /\ UNCHANGED <<appVars, loc, call, uploadVars, failsafe>>
    \/ MatchMethod /\ UNCHANGED <<appVars, loc, call, uploadVars, failsafe>>
    \/ MatchThreshold /\ UNCHANGED <<appVars, loc, call, uploadVars, failsafe>>

SpecMatch == InitMatch /\ [][NextMatch]_vars

(***************************************************************************)
(* The engine on every kind of step: runs over a list that add_step built  *)
(* from steps of every type, with parameters present, missing and empty.   *)
(***************************************************************************)
\* the keys of the positions in the dict of a match
Anchors ==
    {"center", "top_left", "top_right", "bottom_left", "bottom_right",
     "top_center", "bottom_center", "left_center", "right_center"}

EngineInputs ==
    { [type |-> "Click", params |-> [x |-> 1, y |-> 2, button |-> "right"]],
      [type |-> "Click", params |-> [x |-> 1, button |-> "left"]],
      [type |-> "Move Mouse", params |-> [x |-> 1]],
      [type |-> "Type Text", params |-> [text |-> "hi"]],
      [type |-> "Delay", params |-> [seconds |-> 1]],
      [type |-> "Screenshot", params |-> NoParams],
      [type |-> "Press Hotkey", params |-> [keys |-> <<>>, modifiers |-> <<>>]],
      [type |-> "Press Hotkey", params |-> [keys |-> <<"c">>, modifiers |-> <<"ctrl">>]],
      [type |-> "Scroll", params |-> [x |-> 1, y |-> 2]],
      [type |-> "Find and Click Image", params |-> [image_path |-> "a"]],
      [type |-> "Find and Click Image",
       params |-> [image_path |-> "a", position |-> "middle", button |-> "left"]] }
    \cup
    { [type |-> "Find and Click Image",
       params |-> [image_path |-> "b", position |-> p, button |-> "right"]] :
      p \in Anchors }

\* the steps that surround the step under study in a list
Followers ==
    { [type |-> "Type Text", params |-> [text |-> "hi"]],
      [type |-> "Click", params |-> [x |-> 1, y |-> 2, button |-> "right"]] }

\* the list after add_step was called with each element of `added` in turn
Added(added) == [i \in 1..Len(added) |-> SetItem(added[i], "id", StepId(i - 1))]

InitEngine ==
    /\ \E n \in 1..MaxAdds : \E added \in [1..n -> EngineInputs] :
          /\ Cardinality({i \in 1..n : added[i] \notin Followers}) <= 1
          /\ steps = Added(added)
          /\ step_counter = n
    /\ runs = [r \in RunIds |-> RunIdle]
    /\ cpu = 0
    /\ call = NoCall
    /\ temp_files = {}
    /\ uploaded_images = NoParams
    /\ failsafe = FALSE
    /\ loc = LocIdle
    /\ bm = BmIdle

NextEngine ==
    \/ \E r \in DOMAIN runs : RunAllSteps(r)
    \/ \E r \in DOMAIN runs : NextStep(r)
    \/ \E r \in DOMAIN runs : ExecuteStep(r)
    \/ \E r \in DOMAIN runs : FindAndClickReturn(r)
    \/ \E r \in DOMAIN runs : DelayWake(r)
    \/ \E r \in DOMAIN runs : SettleWake(r)
    \/ Locate

SpecEngine == InitEngine /\ [][NextEngine]_vars

(***************************************************************************)
(* The engine with the user moving the mouse into a corner of the screen,  *)
(* the one way the program offers to stop its input calls.                 *)
(***************************************************************************)
TriggerFailSafe ==
    /\ ~failsafe
    /\ failsafe' = TRUE
    /\ UNCHANGED <<appVars, loc, bm, call, uploadVars>>

NextFailSafe ==
    \/ \E r \in DOMAIN runs : RunAllSteps(r)
    \/ \E r \in DOMAIN runs : NextStep(r)
    \/ \E r \in DOMAIN runs : ExecuteStep(r)
    \/ \E r \in DOMAIN runs : FindAndClickReturn(r)
    \/ \E r \in DOMAIN runs : DelayWake(r)
    \/ \E r \in DOMAIN runs : SettleWake(r)
    \/ Locate
    \/ TriggerFailSafe

SpecFailSafe == InitEngine /\ [][NextFailSafe]_vars

(***************************************************************************)
(* Run All Steps clicked again and again on a list that is not edited:     *)
(* every click starts a coroutine of its own on the one event loop.        *)
(***************************************************************************)
RunInputs ==
    { [type |-> "Delay", params |-> [seconds |-> 1]],
      [type |-> "Click", params |-> [x |-> 1, y |-> 2, button |-> "left"]],
      [type |-> "Find and Click Image", params |-> [image_path |-> "a"]] }

InitRuns ==
    /\ \E n \in 1..MaxAdds : \E added \in [1..n -> RunInputs] :
          /\ steps = Added(added)
          /\ step_counter = n
    /\ runs = [r \in 1..MaxTasks |-> RunIdle]
    /\ cpu = 0
    /\ call = NoCall
    /\ temp_files = {}
    /\ uploaded_images = NoParams
    /\ failsafe = FALSE
    /\ loc = LocIdle
    /\ bm = BmIdle

NextRuns ==
    \/ \E r \in DOMAIN runs : RunAllSteps(r)
    \/ \E r \in DOMAIN runs : NextStep(r)
    \/ \E r \in DOMAIN runs : ExecuteStep(r)
    \/ \E r \in DOMAIN runs : FindAndClickReturn(r)
    \/ \E r \in DOMAIN runs : DelayWake(r)
    \/ \E r \in DOMAIN runs : SettleWake(r)
    \/ Locate

SpecRuns == InitRuns /\ [][NextRuns]_vars

(***************************************************************************)
(* Uploads (GUIAutomationApp._handle_upload) and the image steps added     *)
(* from them (MainWindow._on_add_step_clicked).                            *)
(***************************************************************************)
\* the names of the files the user uploads
FileNames == DOMAIN TemplateFiles

\* AutomationState.get_temp_file: self.temp_dir / filename
get_temp_file(filename) == <<"temp_dir", filename>>

\* AutomationState.cleanup_old_files: every file of temp_dir is unlinked
cleanup_old_files == {}

\* _handle_upload for the one file of the event: the old files are cleaned
\* up, then the file is written and recorded; an error of the write is logged
HandleUpload ==
    /\ \E name \in FileNames, written \in BOOLEAN :
          LET file_path == get_temp_file(name) IN
          IF written
          THEN /\ temp_files' = cleanup_old_files \cup {file_path}
               /\ uploaded_images' = SetItem(uploaded_images, name, file_path)
          ELSE /\ temp_files' = cleanup_old_files
               /\ UNCHANGED uploaded_images
    /\ UNCHANGED <<appVars, loc, bm, call, failsafe>>

\* Add Step clicked for a find-and-click step on a selected image:
\* params['image_path'] = self.uploaded_images[selected_image]
AddImageStep ==
    /\ step_counter < MaxAdds
    /\ \E selected_image \in DOMAIN uploaded_images :
          LET m == add_step([type |-> "Find and Click Image",
                             params |-> [image_path |-> uploaded_images[selected_image]]])
          IN  /\ steps' = m.steps
              /\ step_counter' = m.step_counter
    /\ UNCHANGED <<runs, cpu, loc, bm, call, uploadVars, failsafe>>

NextUpload ==
    \/ HandleUpload
    \/ AddImageStep
    \/ RemoveStep
    \/ ClearSteps

SpecUpload == Init /\ [][NextUpload]_vars

(***************************************************************************)
(* AutomationState alone (app/core/models.py): its methods called in any   *)
(* order with any index, each call recorded with what it returned.         *)
(***************************************************************************)
\* the steps add_step is called with
StateInputs ==
    { [type |-> "Click", params |-> [x |-> 1, y |-> 2, button |-> "left"]],
      [type |-> "Scroll", params |-> NoParams] }

\* the indices the index methods are called with
Indices == (-2)..MaxSteps

Called(op, args, m, arg_after) ==
    /\ steps' = m.steps
    /\ step_counter' = m.step_counter
    /\ call' = [op |-> op, args |-> args, ret |-> m.ret, arg_after |-> arg_after,
                before |-> steps, counter_before |-> step_counter,
                prior |-> call.issued,
                issued |-> IF op = "add" THEN call.issued \cup {m.ret.id}
                                         ELSE call.issued]

StateAdd ==
    /\ step_counter < MaxSteps
    /\ \E step \in StateInputs :
          LET m == add_step(step) IN Called("add", <<step>>, m, m.arg)

StateRemove ==
    \E index \in Indices : Called("remove", <<index>>, remove_step(index), None)

StateReorder ==
    \E old_index \in Indices, new_index \in Indices :
        Called("reorder", <<old_index, new_index>>,
               reorder_step(old_index, new_index), None)

StateClear == Called("clear", <<>>, clear_steps, None)

StateGet ==
    \E index \in Indices : Called("get", <<index>>, get_step(index), None)

InitState == AppInit /\ loc = LocIdle /\ bm = BmIdle

NextState ==
    \/ StateAdd /\ UNCHANGED <<runs, cpu, loc, bm, uploadVars, failsafe>>
    \/ StateRemove /\ UNCHANGED <<runs, cpu, loc, bm, uploadVars, failsafe>>
    \/ StateReorder /\ UNCHANGED <<runs, cpu, loc, bm, uploadVars, failsafe>>
    \/ StateClear /\ UNCHANGED <<runs, cpu, loc, bm, uploadVars, failsafe>>
    \/ StateGet /\ UNCHANGED <<runs, cpu, loc, bm, uploadVars, failsafe>>

SpecState == InitState /\ [][NextState]_vars

(***************************************************************************)
(* The claims.                                                             *)
(***************************************************************************)
Completed(r) ==
    \E i \in 1..Len(runs[r].log) : runs[r].log[i].msg = "Automation completed!"

HandlerInProgress(r) == runs[r].pc \in {"exec", "locate", "delay"}

\* C1: fail-fast.  In every run the steps are taken at the iterator
\* positions 0, 1, 2, ... in order, and a step whose execute_step returned
\* failure is the last one the run executes: the run is over, and no step at a
\* greater position is ever executed.
C1_FailFast ==
    \A r \in DOMAIN runs :
        LET t == runs[r].trace IN
        \A k \in 1..Len(t) :
            /\ t[k].idx = k - 1
            /\ t[k].res = "fail" => (k = Len(t) /\ runs[r].pc = "done")

\* a run is over after its first step failed while the list holds a later step
C1_Witness ==
    \E r \in DOMAIN runs :
        /\ runs[r].pc = "done"
        /\ Len(runs[r].trace) = 1
        /\ runs[r].trace[1].res = "fail"
        /\ Len(steps) = 2

\* C2: a run in which a step failed never reports the run as completed: a
\* finished run has logged "Automation completed!" only if every step it
\* executed succeeded.
C2_CompletedOnlyIfAllSucceeded ==
    \A r \in DOMAIN runs :
        (runs[r].pc = "done" /\ Completed(r)) =>
            \A k \in 1..Len(runs[r].trace) : runs[r].trace[k].res = "ok"

\* C3: within one run the steps are executed one after another: a handler
\* begins only when every earlier step of the run has returned (with success),
\* every successful step has been followed by a settle sleep that is over
\* before the next handler begins, and no step (id) is executed twice.
C3_Sequential ==
    \A r \in DOMAIN runs :
        LET t == runs[r].trace IN
        /\ \A k \in 1..(Len(t) - 1) : t[k].res = "ok"
        /\ \A k \in 1..Len(t) : t[k].res = "running" <=> (k = Len(t) /\ HandlerInProgress(r))
        /\ \A j, k \in 1..Len(t) : j # k => t[j].id # t[k].id
        /\ runs[r].settles = Cardinality({k \in 1..Len(t) : t[k].res = "ok"})
        /\ HandlerInProgress(r) => runs[r].settles = Len(t) - 1
        /\ runs[r].pc = "settle" => (Len(t) >= 1 /\ t[Len(t)].res = "ok")

\* the second step of a run has begun after the first succeeded and one settle sleep
C3_Witness ==
    \E r \in DOMAIN runs :
        /\ Len(runs[r].trace) = 2
        /\ runs[r].trace[1].res = "ok"
        /\ runs[r].trace[2].res = "running"
        /\ runs[r].settles = 1

\* C4 as stated: running an empty step list ends Completed with zero steps
\* executed.
C4_EmptyRunCompleted ==
    \A r \in DOMAIN runs :
        (runs[r].pc = "done" /\ runs[r].startLen = 0) =>
            (Completed(r) /\ runs[r].trace = <<>>)

\* C4 as amended: a run started on an empty step list is over at once with
\* zero steps executed (no handler, hence no capture and no injection) and
\* reports only the warning "No steps to run", not completion.
C4_EmptyRunWarns ==
    \A r \in DOMAIN runs :
        (runs[r].pc # "idle" /\ runs[r].startLen = 0) =>
            /\ runs[r].pc = "done"
            /\ runs[r].trace = <<>>
            /\ runs[r].log = << Log("No steps to run", "") >>
            /\ ~Completed(r)

\* a run was started on the empty list
C4_Witness ==
    \E r \in DOMAIN runs : runs[r].pc = "done" /\ runs[r].startLen = 0

\* C5: when the template decodes, no attempt reaches the threshold and no
\* attempt raises, locate with max_attempts = N >= 1 makes exactly N captures
\* and N matches and returns None (not found), raising nothing.
C5_RetryCount ==
    (/\ loc.pc = "done"
     /\ loc.decoded
     /\ loc.max_attempts >= 1
     /\ loc.excs = 0
     /\ loc.result.kind # "found")
    => (/\ loc.result = ReturnNone
        /\ loc.captures = loc.max_attempts
        /\ loc.matches = loc.max_attempts)

\* three attempts, none matching, none raising: not found
C5_Witness ==
    /\ loc.pc = "done"
    /\ loc.decoded
    /\ loc.max_attempts = 3
    /\ loc.excs = 0
    /\ loc.result = ReturnNone
    /\ loc.captures = 3

\* C6: an exception of a non-final attempt, the very first one included, is
\* retried: an exception leaves locate only from the final attempt.
C6_OnlyFinalAttemptPropagates ==
    (loc.pc = "done" /\ loc.result.kind = "raise") =>
        IsFinalAttempt(loc.attempt, loc.max_attempts)

\* C7: execute_step of a find-and-click step returns, never raises, and
\* returns failure with no click issued both when the locator raised and when
\* it returned not-found.
C7_LocatorFailureIsStepFailure ==
    \A r \in DOMAIN runs :
        \A k \in 1..Len(runs[r].trace) :
            LET e == runs[r].trace[k] IN
            /\ e.res \in {"running", "ok", "fail"}
            /\ e.loc \in {"None", "raise"} => (e.res = "fail" /\ e.inj = 0)

\* a find-and-click step failed on an exception of the locator
C7_Witness ==
    \E r \in DOMAIN runs :
        \E k \in 1..Len(runs[r].trace) :
            /\ runs[r].trace[k].loc = "raise"
            /\ runs[r].trace[k].res = "fail"
            /\ runs[r].trace[k].inj = 0

\* C8: a template larger than the captured frame makes locate fail on the
\* first attempt with the error of the invalid template (cv2's), with one
\* capture and no retry sleep, whatever max_attempts is.
C8_OversizedFailsInvalidTemplate ==
    (loc.pc = "done" /\ loc.oversized /\ loc.matches >= 1) =>
        (/\ loc.result = RaiseError("cv2.error")
         /\ loc.captures = 1
         /\ loc.sleeps = 0)

\* C9 as stated: a template that cannot be decoded makes locate fail with an
\* error, which a not-found result is not, and no capture is made.
C9_UndecodableRaises ==
    (loc.pc = "done" /\ ~loc.decoded) =>
        (loc.result.kind = "raise" /\ loc.captures = 0)

\* C9 as amended: a template that cannot be decoded makes locate return None,
\* the value it returns for not-found, raising nothing, and no capture, match
\* or sleep is made.
C9_UndecodableReturnsNone ==
    (loc.pc = "done" /\ ~loc.decoded) =>
        (/\ loc.result = ReturnNone
         /\ loc.captures = 0
         /\ loc.matches = 0
         /\ loc.sleeps = 0)

\* locate was called with max_attempts >= 1 on a template that does not decode
C9_Witness ==
    loc.pc = "done" /\ ~loc.decoded /\ loc.max_attempts >= 1

\* the score of a method on the scale where higher is better
Normalized(method, val) == IF IsSqdiff(method) THEN ScoreMax - val ELSE val

Succeeded == {i \in 1..Len(methods) : ~bm.results[i].fails}

\* C10: the confidence selected by the best-of comparison is the greatest
\* normalized score among the methods that gave one, so that a poor
\* squared-difference match never wins over a better correlation match.
C10_BestIsMaxNormalized ==
    (bm.pc = "done" /\ Succeeded # {}) =>
        /\ \E i \in Succeeded :
              bm.best_match.val = Normalized(methods[i], bm.results[i].val)
        /\ \A i \in Succeeded :
              bm.best_match.val >= Normalized(methods[i], bm.results[i].val)

(***************************************************************************)
(* Claims about the dispatch of execute_step.                              *)
(***************************************************************************)
\* the last entry of run r's trace and whether its execute_step has returned
Last(r) == runs[r].trace[Len(runs[r].trace)]

Returned(r) == runs[r].trace # <<>> /\ Last(r).res # "running"

LastParams(r) == Get(runs[r].cur, "params", NoParams)

\* C11: a Click or Move Mouse step whose params lack the coordinate y fails
\* and issues no input call.
C11_MissingCoordinateFails ==
    \A r \in DOMAIN runs :
        (/\ Returned(r)
         /\ Last(r).type \in {"Click", "Move Mouse"}
         /\ "y" \notin DOMAIN LastParams(r))
        => (Last(r).res = "fail" /\ Last(r).inj = 0 /\ runs[r].sent = NoInj)

KnownTypes ==
    {"move mouse", "click", "type text", "delay", "screenshot",
     "find and click image", "press hotkey"}

\* C12: a step whose type is none of the seven known types is stored by add
\* with an id like any other step, and executing it fails at once: no handler
\* runs, so no input call, no capture and no locator call is made.
C12_UnknownTypeFailsAtExecution ==
    /\ \A i \in 1..Len(steps) : "id" \in DOMAIN steps[i]
    /\ \A r \in DOMAIN runs :
          \A k \in 1..Len(runs[r].trace) :
              LET e == runs[r].trace[k] IN
              Lower(e.type) \notin KnownTypes =>
                  /\ e.res \in {"running", "fail"}
                  /\ e.res = "running" => runs[r].pc = "exec"
                  /\ e.inj = 0 /\ e.cap = 0 /\ e.loc = "-" /\ ~e.err
                  /\ (k = Len(runs[r].trace) /\ e.res = "fail")
                        => (runs[r].sent = NoInj /\ runs[r].pc = "done")

\* a stored step of an unknown type was executed and failed
C12_Witness ==
    \E r \in DOMAIN runs :
        /\ Returned(r)
        /\ Last(r).type = "Scroll"
        /\ Last(r).res = "fail"
        /\ \E i \in 1..Len(steps) :
              steps[i].type = "Scroll" /\ steps[i].id = Last(r).id

\* C13: a Press Hotkey step whose keys and modifiers are both empty fails,
\* sending no key chord, so that the run is over at that step.
C13_EmptyHotkeyFails ==
    \A r \in DOMAIN runs :
        (/\ Returned(r)
         /\ Last(r).type = "Press Hotkey"
         /\ Get(LastParams(r), "keys", <<>>) = <<>>
         /\ Get(LastParams(r), "modifiers", <<>>) = <<>>)
        => (/\ Last(r).res = "fail"
            /\ Last(r).inj = 0
            /\ runs[r].pc = "done")

\* C14: a Screenshot step whose capture or save raised is a failed step, at
\* which the run is over.
C14_ScreenshotFailureFails ==
    \A r \in DOMAIN runs :
        \A k \in 1..Len(runs[r].trace) :
            LET e == runs[r].trace[k] IN
            (e.type = "Screenshot" /\ e.err) =>
                (e.res = "fail" /\ k = Len(runs[r].trace) /\ runs[r].pc = "done")

\* the anchor `name` of the box at (x, y) of width w and height h
AnchorOf(x, y, w, h, name) ==
    LET cx == x + (w \div 2)
        cy == y + (h \div 2)
    IN  CASE name = "center" -> <<cx, cy>>
          [] name = "top_left" -> <<x, y>>
          [] name = "top_right" -> <<x + w, y>>
          [] name = "bottom_left" -> <<x, y + h>>
          [] name = "bottom_right" -> <<x + w, y + h>>
          [] name = "top_center" -> <<cx, y>>
          [] name = "bottom_center" -> <<cx, y + h>>
          [] name = "left_center" -> <<x, cy>>
          [] name = "right_center" -> <<x + w, cy>>

\* C15: when the locator reports found, a find-and-click step issues exactly
\* one input call, a click with the step's button at the anchor of the matched
\* box that the step's position names; when the locator reports not-found the
\* step fails and issues no input call.
C15_ClickAtNamedAnchor ==
    \A r \in DOMAIN runs :
        (Returned(r) /\ Last(r).type = "Find and Click Image") =>
            /\ (Last(r).loc = "found"
                 /\ Get(LastParams(r), "position", "") \in Anchors
                 /\ "button" \in DOMAIN LastParams(r)) =>
                  LET d == runs[r].dict
                      at == AnchorOf(d.top_left[1], d.top_left[2], d.width,
                                     d.height, LastParams(r).position)
                  IN  /\ Last(r).inj = 1
                      /\ runs[r].sent = [fn |-> "click", x |-> at[1], y |-> at[2],
                                         button |-> LastParams(r).button]
            /\ Last(r).loc = "None" =>
                  (Last(r).res = "fail" /\ Last(r).inj = 0 /\ runs[r].sent = NoInj)

\* a match was clicked at an anchor that is not the centre of its box
C15_Witness ==
    \E r \in DOMAIN runs :
        /\ Returned(r)
        /\ Last(r).loc = "found"
        /\ Last(r).res = "ok"
        /\ Get(LastParams(r), "position", "") = "bottom_left"
        /\ runs[r].sent.fn = "click"
        /\ <<runs[r].sent.x, runs[r].sent.y>> # runs[r].dict.center

(***************************************************************************)
(* Claims about AutomationState.                                           *)
(***************************************************************************)
InRange(index, list) == 0 <= index /\ index < Len(list)

Ids(list) == {list[i].id : i \in 1..Len(list)}

Elements(list) == {list[i] : i \in 1..Len(list)}

\* C16: the ids of the steps in the list are pairwise distinct, whatever
\* adds, removes, reorders and clears came before.
C16_IdsUnique ==
    \A i, j \in 1..Len(steps) : i # j => steps[i].id # steps[j].id

\* a step was added to a list of one step after another step had gone
C16_Witness ==
    /\ call.op = "add"
    /\ Len(call.before) = 1
    /\ Cardinality(call.prior) = 2
    /\ Len(steps) = 2

\* C17: an id is assigned once and never reused: add never returns an id it
\* handed out before, the counter never decreases, and remove, reorder and
\* clear leave in the list only steps that were in it, each with the id it had.
C17_IdsStableNeverReused ==
    /\ call.op = "add" => call.ret.id \notin call.prior
    /\ step_counter >= call.counter_before
    /\ Ids(steps) \subseteq call.issued
    /\ call.op \in {"remove", "reorder", "clear", "get"} =>
          /\ Elements(steps) \subseteq Elements(call.before)
          /\ step_counter = call.counter_before

\* add was called on a list that is empty again after ids were handed out
C17_Witness ==
    /\ call.op = "add"
    /\ call.before = <<>>
    /\ call.prior # {}

\* C18: add appends exactly one element, the copy it returns, which carries
\* the new id and the caller's entries; the elements that were in the list
\* keep their places, and the caller's own record is as it was, without an id.
C18_AddAppendsCopy ==
    call.op = "add" =>
        LET step == call.args[1] IN
        /\ steps = Append(call.before, call.ret)
        /\ step_counter = call.counter_before + 1
        /\ call.ret.id = StepId(call.counter_before)
        /\ DOMAIN call.ret = DOMAIN step \cup {"id"}
        /\ \A key \in DOMAIN step : call.ret[key] = step[key]
        /\ call.arg_after = step
        /\ "id" \notin DOMAIN call.arg_after

\* a step was added to a list of two steps
C18_Witness ==
    call.op = "add" /\ Len(call.before) = 2 /\ Len(steps) = 3

\* C19: remove, get and reorder called with an index out of range (negative,
\* or not less than the length, the empty list included) return None / False
\* and leave the list and the counter as they were.
C19_BoundsChecked ==
    /\ (call.op \in {"remove", "get"} /\ ~InRange(call.args[1], call.before)) =>
          (/\ call.ret = None
           /\ steps = call.before
           /\ step_counter = call.counter_before)
    /\ (/\ call.op = "reorder"
        /\ ~(InRange(call.args[1], call.before) /\ InRange(call.args[2], call.before))) =>
          (/\ call.ret = FALSE
           /\ steps = call.before
           /\ step_counter = call.counter_before)

\* remove was called with a negative index on a list of two steps
C19_Witness ==
    /\ call.op = "remove"
    /\ call.args = <<-1>>
    /\ Len(call.before) = 2
    /\ call.ret = None

\* the list without its element at (0-based) index i
Remaining(list, i) == SubSeq(list, 1, i) \o SubSeq(list, i + 2, Len(list))

\* C20: reorder(old, new) with both indices in range returns True and leaves
\* the same steps, the one that was at old now at new and the others in the
\* order they had.
C20_ReorderMoves ==
    (/\ call.op = "reorder"
     /\ InRange(call.args[1], call.before)
     /\ InRange(call.args[2], call.before)) =>
        /\ call.ret = TRUE
        /\ Len(steps) = Len(call.before)
        /\ steps[call.args[2] + 1] = call.before[call.args[1] + 1]
        /\ Remaining(steps, call.args[2]) = Remaining(call.before, call.args[1])
        /\ step_counter = call.counter_before

\* [A, B, C] reordered 0 -> 2 is [B, C, A]
C20_Witness ==
    /\ call.op = "reorder"
    /\ call.args = <<0, 2>>
    /\ Len(call.before) = 3
    /\ steps = <<call.before[2], call.before[3], call.before[1]>>
    /\ Ids(steps) = Ids(call.before)

(***************************************************************************)
(* Claims about the geometry and the threshold of the locator.             *)
(***************************************************************************)
Found == loc.pc = "done" /\ loc.result.kind = "found"

\* C21: the nine positions of a found match are those of the box whose
\* top-left is the match location and whose size is the template's:
\* the corners, the centre at (x + w div 2, y + h div 2) and the four edge
\* centres.
C21_AnchorsFollowFormulas ==
    Found =>
        \A name \in Anchors :
            loc.result.dict[name] =
                AnchorOf(loc.minmax[2][1], loc.minmax[2][2],
                         loc.shape.w, loc.shape.h, name)

\* a template of odd width was found away from the origin
C21_Witness ==
    /\ Found
    /\ loc.shape.w = 3
    /\ loc.minmax[2] = <<1, 0>>
    /\ loc.result.dict.center = <<2, 1>>

\* C22: for a box of width and height at least 1, every one of the nine
\* positions lies on or within the box, and the centre lies between the left
\* and right edges and between the top and bottom edges.
C22_AnchorsWithinBox ==
    Found =>
        LET d == loc.result.dict
            x == d.top_left[1]
            y == d.top_left[2]
        IN  /\ d.width >= 1 /\ d.height >= 1
            /\ \A name \in Anchors :
                  /\ x <= d[name][1] /\ d[name][1] <= x + d.width
                  /\ y <= d[name][2] /\ d[name][2] <= y + d.height
            /\ d.top_left[1] <= d.center[1] /\ d.center[1] <= d.top_right[1]
            /\ d.top_left[2] <= d.center[2] /\ d.center[2] <= d.bottom_left[2]

\* a template of one pixel was found away from the origin
C22_Witness ==
    /\ Found
    /\ loc.shape = [h |-> 1, w |-> 1]
    /\ loc.result.dict.top_left = <<1, 0>>

\* C26: locate returns found at the first attempt whose score reaches the
\* threshold, equality included: an attempt that scored at least the threshold
\* is never followed by a sleep or another attempt, the found result is
\* returned with one capture per attempt made and one sleep per earlier
\* attempt, and its box is the match location with the template's size.
C26_FoundAtFirstScoreAtThreshold ==
    /\ (loc.pc \in {"sleep", "next"} /\ loc.minmax # <<>>) =>
          loc.minmax[1] < loc.confidence
    /\ Found =>
          /\ loc.minmax[1] >= loc.confidence
          /\ loc.result.conf = loc.minmax[1]
          /\ loc.captures = loc.attempt + 1
          /\ loc.sleeps = loc.attempt
          /\ loc.result.dict.top_left = loc.minmax[2]
          /\ loc.result.dict.width = loc.shape.w
          /\ loc.result.dict.height = loc.shape.h

\* found at the second attempt with a score equal to the threshold
C26_Witness ==
    /\ Found
    /\ loc.attempt = 1
    /\ loc.result.conf = loc.confidence
    /\ loc.captures = 2

\* C27: when several strategies share the best (normalized) score of an
\* attempt, the winner is the one listed first, with its location.
C27_FirstListedWinsTie ==
    (bm.pc = "done" /\ Succeeded # {}) =>
        LET score(i) == Normalized(methods[i], bm.results[i].val)
            best == {i \in Succeeded : \A j \in Succeeded : score(i) >= score(j)}
            first == CHOOSE i \in best : \A j \in best : i <= j
        IN  Cardinality(best) >= 2 =>
                /\ bm.best_match.method = methods[first]
                /\ bm.best_match.loc = bm.results[first].loc

(***************************************************************************)
(* Claims about scheduling.                                                *)
(***************************************************************************)
BetweenSteps(r) == runs[r].pc \in {"settle", "fetch"}

\* C23: once the user has asked for a stop (the fail-safe, the one stop
\* signal there is) while a run is between steps, no further step of that run
\* is started.
C23_NoStepAfterCancel ==
    [][\A r \in DOMAIN runs :
          (failsafe /\ BetweenSteps(r)) =>
              Len(runs'[r].trace) <= Len(runs[r].trace)]_vars

\* C24: while the locator waits retry_interval between two attempts, the
\* run that called it does not hold the event loop, as in a Delay step.
C24_BackoffYields ==
    \A r \in DOMAIN runs :
        /\ (runs[r].pc = "locate" /\ loc.pc = "sleep") => cpu # r
        /\ runs[r].pc = "delay" => cpu # r

InCall(r) == runs[r].pc \in {"fetch", "exec", "locate"}

\* C25: at most one run is ever between the resumption of its coroutine and
\* its next suspension, where the captures and input calls are made, and that
\* run holds the event loop; the locator works only for that run.
C25_OneCallInFlight ==
    /\ \A r, q \in DOMAIN runs : (InCall(r) /\ InCall(q)) => r = q
    /\ \A r \in DOMAIN runs : InCall(r) <=> cpu = r
    /\ loc.pc # "idle" => (cpu # 0 /\ runs[cpu].pc = "locate")

\* a run executes a step while another run is suspended
C25_Witness ==
    \E r, q \in DOMAIN runs :
        /\ r # q
        /\ runs[r].pc \in {"delay", "settle"}
        /\ runs[q].pc \in {"exec", "locate"}

\* C28: a run executes the steps that were in the list when it started: not
\* more of them, and all of them when none fails.
C28_RunsListAtStart ==
    \A r \in DOMAIN runs :
        /\ Len(runs[r].trace) <= runs[r].startLen
        /\ (/\ runs[r].pc = "done"
            /\ \A k \in 1..Len(runs[r].trace) : runs[r].trace[k].res = "ok")
           => Len(runs[r].trace) = runs[r].startLen

Active(r) == runs[r].pc \notin {"idle", "done"}

\* C29: at most one run is active at any time.
C29_SingleRun ==
    \A r, q \in DOMAIN runs : (Active(r) /\ Active(q)) => r = q

(***************************************************************************)
(* Claim about uploads.                                                    *)
(***************************************************************************)
Range(f) == {f[x] : x \in DOMAIN f}

ImagePaths(list) ==
    {list[i].params.image_path :
        i \in {j \in 1..Len(list) : list[j].type = "Find and Click Image"}}

\* C30: every path recorded in uploaded_images or used by a find-and-click
\* step of the list is the path of a file that exists.
C30_ImagePathsExist ==
    Range(uploaded_images) \cup ImagePaths(steps) \subseteq temp_files

====
